---- MODULE Spec2Model ----
(***************************************************************************)
(* ProductOrbit: acquisition pipeline (URL validation, retrying fetchers,  *)
(* three source adapters, the bounded offer collector) and the merge-on-   *)
(* write store.  Part 1 models the store and the save_*_to_db merge calls. *)
(***************************************************************************)
EXTENDS Integers, Sequences, FiniteSets, TLC

VARIABLES
    db,        \* MongoDB: [collection, url] -> document (found?, mapping field)
    mpc,       \* per merge call: position in save_*_to_db
    margs,     \* per merge call: its arguments (saver, url, records)
    mcur,      \* per merge call: local current_offers / current_comments
    calls,     \* number of merge calls started so far
    mstart,    \* history: the mapping stored for the call's document when it began
    alone,     \* history: no other call for the same URL overlapped this one
    handed,    \* history: per document, ids of all record sets handed to the store
    everIds,   \* history: per document, every id that was ever stored
    last,      \* history: the latest completed write
    prev,      \* history: the completed write before it
    mongoUp,   \* environment: the MongoDB server answers
    now,       \* environment: wall clock, in units of 0.3 s (default_delay)
    run,       \* one pipeline run: the locals of parse / get_offers / the fetchers
    hist,      \* history of the run: attempts, calls, store accesses, checks
    pure       \* one application of a pure function: its name, input and result

mergeVars == <<db, mpc, margs, mcur, calls, mstart, alone, handed, everIds, last, prev>>
mergeLocals == <<mpc, margs, mcur, calls, mstart, alone, handed, everIds, last, prev>>
runVars == <<mongoUp, now, run, hist>>

vars == <<mergeVars, runVars, pure>>

PureIdle == [fn |-> "none", in |-> <<>>, out |-> <<>>, done |-> FALSE]

----------------------------------------------------------------------------
(* Bounds and value universes *)

MaxCalls == 2

Procs == {"A", "B"}
Savers == {"hotline", "comfy", "brain"}
Urls == {"u1", "u2"}
Ids == {"a", "b"}
Vals == {1, 2}

EmptyMap == [i \in {} |-> 0]
Mappings == UNION {[S -> Vals] : S \in SUBSET Ids}

----------------------------------------------------------------------------
(* The store *)

\* db.products for offers, db.reviews for both review adapters
Collection(saver) == IF saver = "hotline" THEN "products" ELSE "reviews"

Collections == {Collection(s) : s \in Savers}
DocKeys == Collections \X Urls

NoDoc == [found |-> FALSE, field |-> EmptyMap]

\* collection.find_one({"url": url})
FindOne(store, coll, url) == store[<<coll, url>>]

\* product_doc.get("offers", {}) if product_doc else {}
CurrentOf(doc) == IF doc.found THEN doc.field ELSE EmptyMap

\* {id: item.model_dump(mode="json") for id, item in records.items()}: same keys,
\* each item's fields copied into a plain document value
ModelDumpAll(records) == [k \in DOMAIN records |-> records[k]]

\* a variant that adds the incoming value to the entry already stored under
\* the same id instead of replacing it
DictUpdateCombine(cur, new) ==
    [k \in (DOMAIN cur) \cup (DOMAIN new) |->
        IF k \in DOMAIN new
        THEN (IF k \in DOMAIN cur THEN cur[k] + new[k] ELSE new[k])
        ELSE cur[k]]

\* a variant that keeps only the incoming records (the read mapping is dropped)
DictUpdateReplaceAll(cur, new) == new

\* current.update(new): new values replace, other keys stay
DictUpdate(cur, new) ==
    [k \in (DOMAIN cur) \cup (DOMAIN new) |->
        IF k \in DOMAIN new THEN new[k] ELSE cur[k]]

\* a variant whose filter ignores the url: every document of the collection
\* is matched and set
UpdateOneAnyUrl(store, coll, url, mapping) ==
    [k \in DOMAIN store |->
        IF k[1] = coll THEN [found |-> TRUE, field |-> mapping] ELSE store[k]]

\* collection.update_one({"url": url}, {"$set": {field: mapping}}, upsert=True)
UpdateOne(store, coll, url, mapping) ==
    [store EXCEPT ![<<coll, url>>] = [found |-> TRUE, field |-> mapping]]

KeyOf(args) == <<Collection(args.saver), args.url>>

NoArgs == [saver |-> "hotline", url |-> "u1", new |-> EmptyMap]
NoWrite == [done |-> FALSE, key |-> <<"products", "u1">>,
            new |-> EmptyMap, read |-> EmptyMap, start |-> EmptyMap,
            alone |-> TRUE, overlap |-> FALSE, result |-> EmptyMap,
            others |-> TRUE]
NoPrev == [done |-> FALSE, key |-> <<"products", "u1">>, new |-> EmptyMap,
           start |-> EmptyMap, result |-> EmptyMap]

----------------------------------------------------------------------------
(* save_offers_to_db / save_comments_to_db *)

InFlight(p) == mpc[p] # "idle"

\* a caller enters save_*_to_db(url, records)
SaveCall(p, saver, url, new) ==
    /\ mpc[p] = "idle"
    /\ calls < MaxCalls
    /\ calls' = calls + 1
    /\ margs' = [margs EXCEPT ![p] = [saver |-> saver, url |-> url, new |-> new]]
    /\ mpc' = [mpc EXCEPT ![p] = "find_one"]
    /\ mstart' = [mstart EXCEPT ![p] = CurrentOf(db[<<Collection(saver), url>>])]
    /\ alone' = [q \in Procs |->
                    IF q = p
                    THEN \A r \in Procs \ {p} : ~(InFlight(r) /\ margs[r].url = url)
                    ELSE alone[q] /\ ~(InFlight(q) /\ margs[q].url = url)]
    /\ handed' = [handed EXCEPT ![<<Collection(saver), url>>] = @ \cup DOMAIN new]
    /\ UNCHANGED <<db, mcur, everIds, last, prev>>

\* product_doc = await find_one(...); current = product_doc.get(field, {}) ...
SaveFindOne(p) ==
    /\ mpc[p] = "find_one"
    /\ mcur' = [mcur EXCEPT ![p] =
                    CurrentOf(FindOne(db, Collection(margs[p].saver), margs[p].url))]
    /\ mpc' = [mpc EXCEPT ![p] = "update_one"]
    /\ UNCHANGED <<db, margs, calls, mstart, alone, handed, everIds, last, prev>>

\* current.update(new_dict); await update_one(..., {"$set": {field: current}}, upsert=True)
SaveUpdateOne(p) ==
    /\ mpc[p] = "update_one"
    /\ LET merged == DictUpdate(mcur[p], ModelDumpAll(margs[p].new))
           after == UpdateOne(db, Collection(margs[p].saver), margs[p].url, merged)
       IN /\ db' = after
          /\ everIds' = [k \in DocKeys |-> everIds[k] \cup DOMAIN CurrentOf(after[k])]
          /\ last' = [done |-> TRUE, key |-> KeyOf(margs[p]),
                      new |-> margs[p].new, read |-> mcur[p], start |-> mstart[p],
                      alone |-> alone[p],
                      overlap |-> \E q \in Procs \ {p} : InFlight(q),
                      result |-> CurrentOf(after[KeyOf(margs[p])]),
                      others |-> \A k \in DocKeys \ {KeyOf(margs[p])} : after[k] = db[k]]
          /\ prev' = [done |-> last.done, key |-> last.key, new |-> last.new,
                      start |-> last.start, result |-> last.result]
    /\ mpc' = [mpc EXCEPT ![p] = "idle"]
    /\ mcur' = [mcur EXCEPT ![p] = EmptyMap]
    /\ margs' = [margs EXCEPT ![p] = NoArgs]
    /\ mstart' = [mstart EXCEPT ![p] = EmptyMap]
    /\ alone' = [alone EXCEPT ![p] = TRUE]
    /\ UNCHANGED <<calls, handed>>

MergeInit ==
    /\ db = [k \in DocKeys |-> NoDoc]
    /\ mpc = [p \in Procs |-> "idle"]
    /\ margs = [p \in Procs |-> NoArgs]
    /\ mcur = [p \in Procs |-> EmptyMap]
    /\ calls = 0
    /\ mstart = [p \in Procs |-> EmptyMap]
    /\ alone = [p \in Procs |-> TRUE]
    /\ handed = [k \in DocKeys |-> {}]
    /\ everIds = [k \in DocKeys |-> {}]
    /\ last = NoWrite
    /\ prev = NoPrev

\* what earlier runs may have left under a URL: no document, or a document
\* holding any mapping (the empty one included)
PriorDocs == {NoDoc} \cup {[found |-> TRUE, field |-> m] : m \in Mappings}

\* a store that earlier merges have filled: every document holds the same
\* prior mapping, whose ids were handed to the store by those merges
SerialInit ==
    /\ \E d \in PriorDocs :
          /\ db = [k \in DocKeys |-> d]
          /\ handed = [k \in DocKeys |-> DOMAIN CurrentOf(d)]
          /\ everIds = [k \in DocKeys |-> DOMAIN CurrentOf(d)]
    /\ mpc = [p \in Procs |-> "idle"]
    /\ margs = [p \in Procs |-> NoArgs]
    /\ mcur = [p \in Procs |-> EmptyMap]
    /\ calls = 0
    /\ mstart = [p \in Procs |-> EmptyMap]
    /\ alone = [p \in Procs |-> TRUE]
    /\ last = NoWrite
    /\ prev = NoPrev

\* merge calls of any callers, their awaits interleaved by the event loop
MergeNext ==
    \/ \E p \in Procs, s \in Savers, u \in Urls, n \in Mappings : SaveCall(p, s, u, n)
    \/ \E p \in Procs : SaveFindOne(p)
    \/ \E p \in Procs : SaveUpdateOne(p)

\* merge calls executed one after another
SerialNext ==
    \/ \E p \in Procs, s \in Savers, u \in Urls, n \in Mappings :
            /\ \A q \in Procs : ~InFlight(q)
            /\ SaveCall(p, s, u, n)
    \/ \E p \in Procs : SaveFindOne(p)
    \/ \E p \in Procs : SaveUpdateOne(p)

----------------------------------------------------------------------------
(* Pipeline runs: bounds, inputs and payloads *)

MaxCand == 3
MaxClock == 11
default_retries == 3
default_delay == 1
NoneInt == -1000000
NoneStr == "None"

Min(a, b) == IF a <= b THEN a ELSE b

\* a URL: the network location and the path segments urlparse finds in it
UrlHotline == [empty |-> FALSE, netloc |-> <<"hotline.ua">>, segs |-> <<"ua", "item">>]
UrlHotlineRoot == [empty |-> FALSE, netloc |-> <<"hotline.ua">>, segs |-> <<"ru">>]
UrlMixed == [empty |-> FALSE, netloc |-> <<"comfy.ua">>, segs |-> <<"hotline.ua">>]
UrlComfy == [empty |-> FALSE, netloc |-> <<"www.", "comfy.ua">>, segs |-> <<"item.html">>]
UrlBrain == [empty |-> FALSE, netloc |-> <<"brain.com.ua">>, segs |-> <<"ukr", "item-p1.html">>]
UrlBrainNoId == [empty |-> FALSE, netloc |-> <<"brain.com.ua">>, segs |-> <<"item">>]
UrlForeign == [empty |-> FALSE, netloc |-> <<"example.com">>, segs |-> <<"item">>]
UrlEmpty == [empty |-> TRUE, netloc |-> <<>>, segs |-> <<>>]

ReqUrls == {UrlHotline, UrlHotlineRoot, UrlMixed, UrlComfy, UrlBrain, UrlBrainNoId,
            UrlForeign, UrlEmpty}

\* GET /product/offers and GET /product/comments
Endpoints == {"offers", "comments"}
TimeoutInputs == {NoneInt, 3}
CountInputs == {NoneInt, 1, 2}
SortInputs == {NoneStr, "asc", "desc", "price"}
DateInputs == {NoneStr, "bad", "d1"}

\* the edges of a getOffers answer: node i carries _id i and a price; the
\* answers are the first n offers of one listing, out of price order, with a tie
PriceAt(i) == IF i % 2 = 1 THEN 20 ELSE 10
CandidateLists == {[i \in 1..n |-> PriceAt(i)] : n \in 0..MaxCand}
NodeOf(edges, i) == [id |-> i, price |-> edges[i]]

\* what the product page holds for the three patterns of get_product_info
PageContents ==
    {[storeId |-> TRUE, product_id |-> TRUE, total |-> 5],
     [storeId |-> TRUE, product_id |-> TRUE, total |-> 25],
     [storeId |-> TRUE, product_id |-> TRUE, total |-> 0],
     [storeId |-> TRUE, product_id |-> TRUE, total |-> NoneInt],
     [storeId |-> FALSE, product_id |-> TRUE, total |-> 5],
     [storeId |-> TRUE, product_id |-> FALSE, total |-> 5]}

\* raw reviews: id ("none": absent), created (-1: absent, -2: unparseable, else a day)
RawGoodA == [id |-> "a", created |-> 1]
RawGoodB == [id |-> "b", created |-> 2]
RawBadDate == [id |-> "a", created |-> -2]
RawNoId == [id |-> "none", created |-> 1]
ReviewBatches ==
    {<<>>, <<RawGoodA>>, <<RawGoodB>>, <<RawGoodA, RawGoodB>>, <<RawBadDate, RawGoodB>>,
     <<RawNoId, RawGoodB>>}

FetchOps == {"token", "offers", "redirect", "page", "reviews", "html"}

\* the body slot of an attempt that brought no answer; it is never read
NoBody(op) ==
    CASE op \in {"token", "redirect"} -> ""
      [] op = "offers" -> [null |-> TRUE, edges |-> <<>>]
      [] op = "page" -> [storeId |-> FALSE, product_id |-> FALSE, total |-> NoneInt]
      [] op = "reviews" -> <<>>
      [] OTHER -> [blank |-> TRUE, items |-> <<>>]

\* what one attempt of a fetcher can meet: an answer it returns, or a failure
AttemptOutcomes(op) ==
    {[res |-> "exception", body |-> NoBody(op)]} \cup
    CASE op = "token" ->
            {[res |-> "success", body |-> b] : b \in {"token", "no_token", "null_data"}}
      [] op = "offers" ->
            {[res |-> "success", body |-> [null |-> FALSE, edges |-> e]] : e \in CandidateLists}
            \cup {[res |-> "success", body |-> [null |-> TRUE, edges |-> <<>>]]}
      [] op = "redirect" ->
            {[res |-> "success", body |-> "shop"], [res |-> "no_target", body |-> NoBody(op)]}
      [] op = "page" -> {[res |-> "success", body |-> c] : c \in PageContents}
      [] op = "reviews" -> {[res |-> "success", body |-> b] : b \in ReviewBatches}
      [] op = "html" ->
            {[res |-> "success", body |-> [blank |-> FALSE, items |-> b]] : b \in ReviewBatches}
            \cup {[res |-> "success", body |-> [blank |-> TRUE, items |-> <<>>]]}

\* the value a fetcher returns after its last attempt failed: None, [] or ""
NoPayload == [ok |-> FALSE, body |-> <<>>]

----------------------------------------------------------------------------
(* utils.validate_url and the adapters' pure helpers *)

LANG_PREFIXES == {"ua", "ukr", "en", "ru"}

\* str.lower on a path segment
Lower(seg) == CASE seg = "UA" -> "ua" [] seg = "RU" -> "ru" [] OTHER -> seg

\* os.path.splitext(seg)[0]
SplitExtStem(seg) ==
    CASE seg = "item.html" -> "item"
      [] seg = "item-p1.html" -> "item-p1"
      [] seg = "hotline.ua" -> "hotline"
      [] OTHER -> seg

\* str.endswith over strings written as sequences of pieces
EndsWith(str, suffix) ==
    /\ Len(suffix) <= Len(str)
    /\ SubSeq(str, Len(str) - Len(suffix) + 1, Len(str)) = suffix

\* `piece in url` over the pieces of the whole URL
UrlContains(url, piece) ==
    \/ \E i \in 1..Len(url.netloc) : url.netloc[i] = piece
    \/ \E i \in 1..Len(url.segs) : url.segs[i] = piece

DomainOf(adapter) ==
    CASE adapter = "hotline" -> "hotline.ua"
      [] adapter = "comfy" -> "comfy.ua"
      [] OTHER -> "brain.com.ua"

\* f"/" + "/".join(path_parts), written as pieces
RECURSIVE JoinPath(_)
JoinPath(path_parts) ==
    IF path_parts = <<>> THEN <<>>
    ELSE IF Len(path_parts) = 1 THEN <<path_parts[1]>>
    ELSE <<path_parts[1], "/">> \o JoinPath(Tail(path_parts))
NormalizedPath(path_parts) == <<"/">> \o JoinPath(path_parts)

validate_url(url, domain) ==
    IF url.empty
    THEN [ok |-> FALSE, url |-> url, path |-> <<>>, slug |-> "", normalized_path |-> <<>>]
    ELSE IF ~EndsWith(url.netloc, <<domain>>)
    THEN [ok |-> FALSE, url |-> url, path |-> <<>>, slug |-> "", normalized_path |-> <<>>]
    ELSE LET parts0 == url.segs
             path_parts == IF parts0 # <<>> /\ Lower(parts0[1]) \in LANG_PREFIXES
                           THEN Tail(parts0) ELSE parts0
         IN [ok |-> TRUE,
             url |-> [empty |-> FALSE, netloc |-> <<domain>>, segs |-> path_parts],
             path |-> path_parts,
             normalized_path |-> NormalizedPath(path_parts),
             slug |-> IF path_parts # <<>>
                      THEN SplitExtStem(path_parts[Len(path_parts)]) ELSE ""]

\* a variant that lets every URL through
ValidationNeverFailed(v) == FALSE

\* `if not url or not path or not slug` of the three parse methods
ValidationFailed(v) == v.url.empty \/ ~v.ok \/ v.slug = ""

\* ParserFactory.get_parser: first substring match wins, else ValueError
get_parser(url) ==
    IF UrlContains(url, "hotline.ua") THEN "hotline"
    ELSE IF UrlContains(url, "comfy.ua") THEN "comfy"
    ELSE IF UrlContains(url, "brain.com.ua") THEN "brain"
    ELSE "ValueError"

\* a variant that finds an id in every URL
ExtractAlwaysFound(url) == "1"

\* BrainAPI.extract_product_id: re.search(r'-p(\d+)\.html', url)
extract_product_id(url) ==
    IF \E i \in 1..Len(url.segs) : url.segs[i] = "item-p1.html" THEN "1" ELSE NoneStr

\* utils.parse_date_to_ts: a timestamp, or None for an absent or malformed date
parse_date_to_ts(date_to_str) ==
    IF date_to_str = NoneStr \/ date_to_str = "" THEN NoneInt
    ELSE IF date_to_str = "d1" THEN 1
    ELSE NoneInt

\* HotlineAPI.validate_query_params.  Lines 28 and 45 call `.is_integer()` on
\* the int FastAPI parsed: int has that method from Python 3.12 on, and the
\* source pins no interpreter, so whether it exists is a choice of the build.
\* Where it does not exist the first parameter that is not None raises
\* AttributeError; where it exists it is true of every int, so the else
\* branches of lines 34-36 and 51-53 are never taken.
validate_query_params(timeout_limit, price_sort, count_limit, has_is_integer) ==
    IF ~has_is_integer /\ (timeout_limit # NoneInt \/ count_limit # NoneInt)
    THEN [raises |-> TRUE, timeout_limit |-> NoneInt, price_sort |-> NoneStr,
          count_limit |-> NoneInt]
    ELSE [raises |-> FALSE,
          timeout_limit |->
             IF timeout_limit = NoneInt THEN 60
             ELSE IF timeout_limit > 60 THEN 60
             ELSE IF timeout_limit < 1 THEN 10
             ELSE timeout_limit,
          price_sort |->
             IF price_sort # NoneStr /\ price_sort # "" /\ price_sort \notin {"asc", "desc"}
             THEN NoneStr ELSE price_sort,
          count_limit |->
             IF count_limit = NoneInt THEN 10
             ELSE IF count_limit > 1000 THEN 1000
             ELSE IF count_limit < 1 THEN 10
             ELSE count_limit]

\* Python truthiness of an optional string / an optional number
TruthyStr(x) == x # NoneStr /\ x # ""
TruthyInt(x) == x # NoneInt /\ x # 0

\* a variant that puts a new key in front of the older ones
DictSetPrepend(items, item) ==
    IF \E i \in 1..Len(items) : items[i].id = item.id
    THEN [i \in 1..Len(items) |-> IF items[i].id = item.id THEN item ELSE items[i]]
    ELSE <<item>> \o items

\* parsed_offers[offer_id] = offer_data on an insertion-ordered dict
DictSet(items, item) ==
    IF \E i \in 1..Len(items) : items[i].id = item.id
    THEN [i \in 1..Len(items) |-> IF items[i].id = item.id THEN item ELSE items[i]]
    ELSE Append(items, item)

\* sorted(..., key=price, reverse=reverse): stable in both directions
RECURSIVE InsertByPrice(_, _, _)
InsertByPrice(done, x, reverse) ==
    IF done = <<>> THEN <<x>>
    ELSE IF (IF reverse THEN Head(done).price >= x.price ELSE Head(done).price <= x.price)
         THEN <<Head(done)>> \o InsertByPrice(Tail(done), x, reverse)
         ELSE <<x>> \o done

\* a variant that sorts descending by reversing the ascending order
ReverseSeq(items) == [i \in 1..Len(items) |-> items[Len(items) + 1 - i]]
RECURSIVE SortedAscending(_)
SortedAscending(items) ==
    IF items = <<>> THEN <<>>
    ELSE InsertByPrice(SortedAscending(SubSeq(items, 1, Len(items) - 1)),
                       items[Len(items)], FALSE)
SortedByReversal(items, reverse) ==
    IF reverse THEN ReverseSeq(SortedAscending(items)) ELSE SortedAscending(items)

RECURSIVE SortedByPrice(_, _)
SortedByPrice(items, reverse) ==
    IF items = <<>> THEN <<>>
    ELSE InsertByPrice(SortedByPrice(SubSeq(items, 1, Len(items) - 1), reverse),
                       items[Len(items)], reverse)

\* dict(islice(parsed_offers.items(), count_limit))
Islice(items, n) == SubSeq(items, 1, Min(n, Len(items)))

\* lines 222-238 of get_offers: sort if asked, then cut to count_limit
PostProcess(parsed, price_sort, count_limit) ==
    LET ordered == IF TruthyStr(price_sort)
                   THEN SortedByPrice(parsed, price_sort = "desc") ELSE parsed
    IN IF TruthyInt(count_limit) THEN Islice(ordered, count_limit) ELSE ordered

\* a variant that falls back to the offer URL when no target was resolved
ParseOfferFallsBack(node, redirect) ==
    [id |-> node.id, price |-> node.price,
     original_url |-> IF redirect.ok THEN redirect.body ELSE "offer_url"]

\* get_offers.parse_offer: the record of a candidate; get_redirect_url returned
\* the target (redirect.ok) or None
parse_offer(node, redirect) ==
    [id |-> node.id, price |-> node.price,
     original_url |-> IF redirect.ok THEN redirect.body ELSE NoneStr]

\* a variant of the early exit whose sort test is inverted: it stops on the
\* count when a sort was requested and never when none was
CountReachedWhenSorted(collected, count_limit, price_sort) ==
    TruthyInt(count_limit) /\ TruthyStr(price_sort) /\ collected >= count_limit

\* `if count_limit and not price_sort and len(parsed_offers) >= count_limit`
CountReached(collected, count_limit, price_sort) ==
    TruthyInt(count_limit) /\ ~TruthyStr(price_sort) /\ collected >= count_limit

\* a variant of the check that stops only once the limit is passed
TimeoutReachedStrict(elapsed, timeout_limit) == 3 * elapsed > 10 * timeout_limit

\* `elapsed >= timeout_limit`: elapsed in units of 0.3 s, the limit in seconds
TimeoutReached(elapsed, timeout_limit) == 3 * elapsed >= 10 * timeout_limit

\* the mapping a sequence of offers / comments stands for (id -> record)
AsMapping(items) ==
    [k \in {items[i].id : i \in 1..Len(items)} |->
        LET i == CHOOSE j \in 1..Len(items) : items[j].id = k
        IN [price |-> items[i].price, original_url |-> items[i].original_url]]

\* ComfyParser.parse.parse_review on one raw review, then `if review_id and comment_item`
ComfyKeeps(review, date_to_ts) ==
    /\ review.created # -1
    /\ review.created # -2
    /\ ~(TruthyInt(date_to_ts) /\ review.created > date_to_ts)
    /\ review.id # "none"

\* BrainParser.parse.parse_comment: comment_item["data-cid"] raises KeyError
BrainRaises(item) == item.id = "none"
BrainKeeps(item, date_to_ts) ==
    /\ item.created # -1
    /\ item.created # -2
    /\ TruthyInt(item.created)
    /\ ~(TruthyInt(date_to_ts) /\ item.created > date_to_ts)

\* the records a batch adds to the comments dict, in order
RECURSIVE Accumulate(_, _, _, _)
Accumulate(comments, batch, date_to_ts, adapter) ==
    IF batch = <<>> THEN comments
    ELSE LET r == Head(batch)
             keep == IF adapter = "comfy" THEN ComfyKeeps(r, date_to_ts)
                     ELSE BrainKeeps(r, date_to_ts)
             next == IF keep
                     THEN [k \in (DOMAIN comments) \cup {r.id} |->
                              IF k = r.id THEN [created_at |-> r.created] ELSE comments[k]]
                     ELSE comments
         IN Accumulate(next, Tail(batch), date_to_ts, adapter)

\* a variant that counts a last, partly filled page
PageSizeRoundedUp(reviews_total) == (reviews_total + 9) \div 10

\* page_size = int(reviews_total // 10); if page_size == 0: page_size = 1
PageSize(reviews_total) ==
    IF reviews_total \div 10 = 0 THEN 1 ELSE reviews_total \div 10

----------------------------------------------------------------------------
(* One pipeline run: main.get_product_offers / get_product_comments -> parse *)

CanonUrls == {validate_url(u, DomainOf(get_parser(u))).url :
                u \in {x \in ReqUrls : get_parser(x) # "ValueError"
                        /\ ~ValidationFailed(validate_url(x, DomainOf(get_parser(x))))}}
RunDocKeys == Collections \X CanonUrls

\* the store a run finds: offer documents left by earlier runs, no review documents
PriorStore ==
    [k \in RunDocKeys |->
        IF k[1] = "products"
        THEN [found |-> TRUE, field |-> [i \in {3} |-> [price |-> 30, original_url |-> NoneStr]]]
        ELSE NoDoc]

Running == [status |-> "running", cause |-> "", offers |-> <<>>, comments |-> EmptyMap]

RunIdle ==
    [pc |-> "idle", endpoint |-> "none", req_url |-> UrlEmpty,
     url |-> UrlEmpty, adapter |-> "none", mongo_ok |-> FALSE,
     req_timeout |-> NoneInt, req_count |-> NoneInt, req_sort |-> NoneStr,
     timeout_limit |-> 0, price_sort |-> NoneStr, count_limit |-> 0, start_time |-> 0,
     fop |-> "none", attempt |-> 0, fres |-> NoPayload,
     offers_data |-> <<>>, idx |-> 0, parsed_offers |-> <<>>,
     offers |-> [is_list |-> FALSE, items |-> <<>>],
     date_to_ts |-> NoneInt, reviews_total |-> 0, page_size |-> 0, page |-> 0,
     comments |-> EmptyMap,
     current |-> EmptyMap, outcome |-> Running]

HistIdle ==
    [tries |-> 0, succ |-> 0, exhausted |-> {}, opCalls |-> [op \in FetchOps |-> 0],
     tokenResult |-> "pending", storeReads |-> 0, storeWrites |-> 0,
     atSave |-> FALSE, saveDown |-> FALSE,
     check |-> [done |-> FALSE, elapsed |-> 0, started |-> FALSE],
     timedOut |-> FALSE, countExit |-> FALSE, started |-> 0,
     computed |-> <<>>, pages |-> <<>>, emptyAt |-> {}]

\* the coroutine returns (status "ok") or raises to main's `except Exception` ("error")
Finish(r, status, cause, offers, comments) ==
    [r EXCEPT !.pc = "done",
              !.outcome = [status |-> status, cause |-> cause, offers |-> offers,
                           comments |-> comments]]

AfterPc(op) ==
    CASE op = "token" -> "after_token"
      [] op = "offers" -> "after_offers"
      [] op = "redirect" -> "after_redirect"
      [] op = "page" -> "after_page"
      [] op = "reviews" -> "after_reviews"
      [] OTHER -> "after_html"

\* entering a fetcher: for attempt in range(1, self.default_retries + 1)
BeginFetch(r, op) == [r EXCEPT !.pc = "fetch_try", !.fop = op, !.attempt = 1, !.fres = NoPayload]
HistBegin(h, op) == [h EXCEPT !.tries = 0, !.succ = 0, !.opCalls[op] = @ + 1]

\* a variant of the loop bound that allows one attempt more
MoreAttemptsInclusive(attempt) == attempt <= default_retries

\* a variant of the loop that never gives up
MoreAttemptsUnbounded(attempt) == TRUE

\* range(1, default_retries + 1): another attempt follows attempt n iff n < default_retries
MoreAttempts(attempt) == attempt < default_retries

\* HotlineParser.parse lines 283-291, entered when get_offers returns offersVal
\* (a list [] from the early returns, a dict otherwise)
LeaveGetOffers(r, offersVal) ==
    IF r.mongo_ok
    THEN [r EXCEPT !.offers = offersVal, !.pc = "save_find"]
    ELSE IF offersVal.is_list
         THEN Finish(r, "error", "ValidationError", <<>>, EmptyMap)
         ELSE Finish(r, "ok", "", offersVal.items, EmptyMap)

HistAtSave(h, computed) ==
    [h EXCEPT !.atSave = TRUE, !.saveDown = ~mongoUp, !.computed = computed]

EmptyList == [is_list |-> TRUE, items |-> <<>>]
AsDict(items) == [is_list |-> FALSE, items |-> items]

\* a request reaches an endpoint: get_parser, validate_url and the synchronous
\* start of parse, up to its first await; offers passes timeout_limit,
\* count_limit and price_sort to parse, comments passes date_to
Receive(endpoint, url, tl, cl, sort, date_to) ==
    /\ run.pc = "idle"
    /\ LET adapter == get_parser(url)
           v == validate_url(url, DomainOf(adapter))
           r0 == [run EXCEPT !.endpoint = endpoint, !.req_url = url]
       IN /\ endpoint = "offers" => date_to = NoneStr
          /\ endpoint = "comments" => (tl = NoneInt /\ cl = NoneInt /\ sort = NoneStr)
          /\ IF adapter = "hotline" /\ ~ValidationFailed(v)
             THEN date_to = NoneStr
             ELSE tl = NoneInt /\ cl = NoneInt /\ sort = NoneStr
          /\ (adapter \in {"ValueError", "hotline"} \/ ValidationFailed(v)
                \/ (adapter = "brain" /\ extract_product_id(v.url) = NoneStr))
                => date_to = NoneStr
          /\ run' =
               IF adapter = "ValueError"
               THEN Finish(r0, "error", "ValueError", <<>>, EmptyMap)
               ELSE IF ValidationFailed(v)
               THEN Finish([r0 EXCEPT !.adapter = adapter, !.url = v.url],
                           "ok", "", <<>>, EmptyMap)
               ELSE IF adapter = "hotline"
               THEN [r0 EXCEPT !.adapter = adapter, !.url = v.url, !.pc = "h_mongo_check",
                                !.req_timeout = tl, !.req_count = cl, !.req_sort = sort]
               ELSE IF adapter = "comfy"
               THEN BeginFetch([r0 EXCEPT !.adapter = adapter, !.url = v.url,
                                           !.date_to_ts = parse_date_to_ts(date_to)], "page")
               ELSE IF extract_product_id(v.url) = NoneStr
               THEN Finish([r0 EXCEPT !.adapter = adapter, !.url = v.url],
                           "ok", "", <<>>, EmptyMap)
               ELSE BeginFetch([r0 EXCEPT !.adapter = adapter, !.url = v.url,
                                           !.date_to_ts = parse_date_to_ts(date_to)], "html")
          /\ hist' =
               IF adapter = "comfy" /\ ~ValidationFailed(v) THEN HistBegin(hist, "page")
               ELSE IF adapter = "brain" /\ ~ValidationFailed(v)
                       /\ extract_product_id(v.url) # NoneStr
               THEN HistBegin(hist, "html")
               ELSE hist
    /\ UNCHANGED <<db, mongoUp, now, mergeLocals>>

\* HotlineParser.parse lines 267-275 and get_offers lines 143-144: the early
\* mongo_check, validate_query_params, start_time, then get_product_token
HMongoCheck(has_is_integer) ==
    /\ run.pc = "h_mongo_check"
    /\ LET p == validate_query_params(run.req_timeout, run.req_sort, run.req_count,
                                      has_is_integer)
           r == [run EXCEPT !.mongo_ok = mongoUp, !.req_timeout = NoneInt,
                            !.req_count = NoneInt, !.req_sort = NoneStr]
       IN /\ run' = IF p.raises
                    THEN Finish(r, "error", "AttributeError:is_integer", <<>>, EmptyMap)
                    ELSE BeginFetch([r EXCEPT !.timeout_limit = p.timeout_limit,
                                              !.price_sort = p.price_sort,
                                              !.count_limit = p.count_limit,
                                              !.start_time = now], "token")
          /\ hist' = IF p.raises THEN hist ELSE HistBegin(hist, "token")
    /\ UNCHANGED <<db, mongoUp, now, mergeLocals>>

\* one attempt of fetch_page_json / get_redirect_url / get_page_content /
\* get_reviews / get_reviews_html; it takes d units of 0.3 s
FetchTry(op, out, d) ==
    /\ run.pc = "fetch_try"
    /\ run.fop = op
    /\ now' = Min(now + d, MaxClock)
    /\ hist' = [hist EXCEPT !.tries = @ + 1,
                            !.succ = IF out.res = "success" THEN @ + 1 ELSE @]
    /\ run' = IF out.res = "success"
              THEN [run EXCEPT !.fres = [ok |-> TRUE, body |-> out.body],
                               !.pc = AfterPc(run.fop)]
              ELSE [run EXCEPT !.pc = "fetch_sleep"]
    /\ UNCHANGED <<db, mongoUp, mergeLocals>>

\* await asyncio.sleep(self.default_delay * attempt), then the next attempt or
\* the empty return after the loop
FetchSleep ==
    /\ run.pc = "fetch_sleep"
    /\ now' = Min(now + default_delay * run.attempt, MaxClock)
    /\ run' = IF MoreAttempts(run.attempt)
              THEN [run EXCEPT !.attempt = @ + 1, !.pc = "fetch_try"]
              ELSE [run EXCEPT !.fres = NoPayload, !.pc = AfterPc(run.fop)]
    /\ hist' = IF MoreAttempts(run.attempt) THEN hist
               ELSE [hist EXCEPT !.exhausted = @ \cup {run.fop}]
    /\ UNCHANGED <<db, mongoUp, mergeLocals>>

\* get_product_token lines 122-129, get_offers lines 146-184
AfterToken ==
    /\ run.pc = "after_token"
    /\ LET got == run.fres.ok /\ run.fres.body = "token"
           broken == run.fres.ok /\ run.fres.body = "null_data"
       IN /\ run' = IF broken
                    THEN Finish(run, "error", "AttributeError", <<>>, EmptyMap)
                    ELSE IF got THEN BeginFetch(run, "offers")
                    ELSE LeaveGetOffers(run, EmptyList)
          /\ hist' = IF broken THEN [hist EXCEPT !.tokenResult = "raised"]
                     ELSE IF got
                     THEN HistBegin([hist EXCEPT !.tokenResult = "token"], "offers")
                     ELSE HistAtSave([hist EXCEPT !.tokenResult = "none"], <<>>)
    /\ UNCHANGED <<db, mongoUp, now, mergeLocals>>

\* a variant that takes start_time again as the enumeration begins
EnterLoopRestartsBudget(r, edges) ==
    [r EXCEPT !.offers_data = edges, !.idx = 1, !.parsed_offers = <<>>, !.pc = "h_loop",
              !.start_time = now]

\* get_offers lines 186-209: offers_data is read from the response,
\* parsed_offers = {} and the loop over offers_data begins; start_time keeps
\* the value line 143 gave it
EnterLoop(r, edges) ==
    [r EXCEPT !.offers_data = edges, !.idx = 1, !.parsed_offers = <<>>, !.pc = "h_loop"]

\* get_offers lines 186-208
AfterOffers ==
    /\ run.pc = "after_offers"
    /\ run' = IF ~run.fres.ok THEN LeaveGetOffers(run, EmptyList)
              ELSE IF run.fres.body.null
              THEN Finish(run, "error", "AttributeError", <<>>, EmptyMap)
              ELSE EnterLoop(run, run.fres.body.edges)
    /\ hist' = IF ~run.fres.ok THEN HistAtSave(hist, <<>>) ELSE hist
    /\ UNCHANGED <<db, mongoUp, now, mergeLocals>>

\* get_offers lines 209-216: the loop head with its timeout check
LoopHead ==
    /\ run.pc = "h_loop"
    /\ LET elapsed == now - run.start_time
           over == run.idx > Len(run.offers_data)
           timeout == TruthyInt(run.timeout_limit) /\ TimeoutReached(elapsed, run.timeout_limit)
           result == PostProcess(run.parsed_offers, run.price_sort, run.count_limit)
       IN /\ run' = IF over \/ timeout THEN LeaveGetOffers(run, AsDict(result))
                    ELSE BeginFetch(run, "redirect")
          /\ hist' = IF over THEN HistAtSave(hist, result)
                     ELSE IF timeout
                     THEN HistAtSave([hist EXCEPT !.timedOut = TRUE,
                                        !.check = [done |-> TRUE, elapsed |-> elapsed,
                                                   started |-> FALSE]], result)
                     ELSE HistBegin([hist EXCEPT !.started = @ + 1,
                                        !.check = [done |-> TRUE, elapsed |-> elapsed,
                                                   started |-> TRUE]], "redirect")
    /\ UNCHANGED <<db, mongoUp, now, mergeLocals>>

\* parse_offer lines 193-205 after get_redirect_url returned, then lines 217-220
AfterRedirect ==
    /\ run.pc = "after_redirect"
    /\ LET node == NodeOf(run.offers_data, run.idx)
           item == parse_offer(node, run.fres)
           parsed == DictSet(run.parsed_offers, item)
           enough == CountReached(Len(parsed), run.count_limit, run.price_sort)
           result == PostProcess(parsed, run.price_sort, run.count_limit)
       IN /\ run' = IF enough
                    THEN LeaveGetOffers([run EXCEPT !.parsed_offers = parsed], AsDict(result))
                    ELSE [run EXCEPT !.parsed_offers = parsed, !.idx = @ + 1, !.pc = "h_loop"]
          /\ hist' = IF enough THEN HistAtSave([hist EXCEPT !.countExit = TRUE], result)
                     ELSE hist
    /\ UNCHANGED <<db, mongoUp, now, mergeLocals>>

\* get_product_info lines 78-105, ComfyParser.parse lines 163-172
AfterPage ==
    /\ run.pc = "after_page"
    /\ LET c == run.fres.body
           missing == ~run.fres.ok \/ ~c.storeId \/ ~c.product_id \/ ~TruthyInt(c.total)
       IN /\ run' = IF missing THEN Finish(run, "ok", "", <<>>, EmptyMap)
                    ELSE BeginFetch([run EXCEPT !.reviews_total = c.total,
                                                !.page_size = PageSize(c.total), !.page = 1,
                                                !.comments = EmptyMap], "reviews")
          /\ hist' = IF missing THEN hist
                     ELSE HistBegin([hist EXCEPT !.pages = <<1>>], "reviews")
    /\ UNCHANGED <<db, mongoUp, now, mergeLocals>>

\* ComfyParser.parse lines 201-219: one page of the loop
AfterReviews ==
    /\ run.pc = "after_reviews"
    /\ LET batch == IF run.fres.ok THEN run.fres.body ELSE <<>>
           comments == Accumulate(run.comments, batch, run.date_to_ts, "comfy")
           more == run.page < run.page_size
           seen == IF batch = <<>> THEN [hist EXCEPT !.emptyAt = @ \cup {run.page}] ELSE hist
       IN /\ run' = IF more
                    THEN BeginFetch([run EXCEPT !.comments = comments, !.page = @ + 1], "reviews")
                    ELSE [run EXCEPT !.comments = comments, !.pc = "mongo_check"]
          /\ hist' = IF more
                     THEN HistBegin([seen EXCEPT !.pages = Append(@, run.page + 1)], "reviews")
                     ELSE HistAtSave(seen, comments)
    /\ UNCHANGED <<db, mongoUp, now, mergeLocals>>

\* BrainParser.parse lines 157-173
AfterHtml ==
    /\ run.pc = "after_html"
    /\ LET none == ~run.fres.ok \/ run.fres.body.blank
           items == IF none THEN <<>> ELSE run.fres.body.items
           raises == \E i \in 1..Len(items) : BrainRaises(items[i])
           comments == Accumulate(EmptyMap, items, run.date_to_ts, "brain")
       IN /\ run' = IF none THEN Finish(run, "ok", "", <<>>, EmptyMap)
                    ELSE IF raises THEN Finish(run, "error", "KeyError", <<>>, EmptyMap)
                    ELSE [run EXCEPT !.comments = comments, !.pc = "mongo_check"]
          /\ hist' = IF none \/ raises THEN hist ELSE HistAtSave(hist, comments)
    /\ UNCHANGED <<db, mongoUp, now, mergeLocals>>

\* mongo_check() right before the save of the two review adapters
MongoCheck ==
    /\ run.pc = "mongo_check"
    /\ run' = IF mongoUp THEN [run EXCEPT !.mongo_ok = TRUE, !.pc = "save_find"]
              ELSE Finish([run EXCEPT !.mongo_ok = FALSE], "ok", "", <<>>, run.comments)
    /\ UNCHANGED <<db, mongoUp, now, hist, mergeLocals>>

RunRecords(r) == IF r.adapter = "hotline" THEN AsMapping(r.offers.items) ELSE r.comments

\* save_*_to_db up to its second await: find_one, then the dict merge
\* (offers.items() raises on the list get_offers returns early)
SaveFind ==
    /\ run.pc = "save_find"
    /\ hist' = [hist EXCEPT !.storeReads = @ + 1]
    /\ run' = IF ~mongoUp THEN Finish(run, "error", "ServerSelectionTimeoutError", <<>>, EmptyMap)
              ELSE IF run.adapter = "hotline" /\ run.offers.is_list
              THEN Finish(run, "error", "AttributeError:list", <<>>, EmptyMap)
              ELSE [run EXCEPT !.pc = "save_update",
                       !.current = DictUpdate(
                            CurrentOf(FindOne(db, Collection(run.adapter), run.url)),
                            ModelDumpAll(RunRecords(run)))]
    /\ UNCHANGED <<db, mongoUp, now, mergeLocals>>

\* update_one(..., upsert=True), then parse returns the product data
SaveUpdate ==
    /\ run.pc = "save_update"
    /\ hist' = [hist EXCEPT !.storeWrites = @ + 1]
    /\ db' = IF mongoUp THEN UpdateOne(db, Collection(run.adapter), run.url, run.current)
             ELSE db
    /\ run' = IF ~mongoUp THEN Finish(run, "error", "ServerSelectionTimeoutError", <<>>, EmptyMap)
              ELSE IF run.adapter = "hotline"
              THEN Finish(run, "ok", "", run.offers.items, EmptyMap)
              ELSE Finish(run, "ok", "", <<>>, run.comments)
    /\ UNCHANGED <<mongoUp, now, mergeLocals>>

\* the MongoDB server stops answering while a run is in progress; the run
\* observes the server only in mongo_check, find_one and update_one, so the
\* stop is placed at the last steps of get_offers or right before one of the three
StoreDown ==
    /\ mongoUp
    /\ run.pc \in {"after_token", "after_offers", "h_loop", "after_redirect",
                   "mongo_check", "save_find", "save_update"}
    /\ mongoUp' = FALSE
    /\ UNCHANGED <<db, now, run, hist, mergeLocals>>

RunNext ==
    \/ \E e \in Endpoints, u \in ReqUrls, tl \in TimeoutInputs, cl \in CountInputs,
          so \in SortInputs, dt \in DateInputs : Receive(e, u, tl, cl, so, dt)
    \/ \E has_is_integer \in BOOLEAN : HMongoCheck(has_is_integer)
    \/ \E op \in FetchOps, d \in {0, 1} : \E out \in AttemptOutcomes(op) : FetchTry(op, out, d)
    \/ FetchSleep
    \/ AfterToken
    \/ AfterOffers
    \/ LoopHead
    \/ AfterRedirect
    \/ AfterPage
    \/ AfterReviews
    \/ AfterHtml
    \/ MongoCheck
    \/ SaveFind
    \/ SaveUpdate
    \/ StoreDown

RunInit ==
    /\ db = PriorStore
    /\ mongoUp \in BOOLEAN
    /\ now = 0
    /\ run = RunIdle
    /\ hist = HistIdle
    /\ mpc = [p \in Procs |-> "idle"]
    /\ margs = [p \in Procs |-> NoArgs]
    /\ mcur = [p \in Procs |-> EmptyMap]
    /\ calls = 0
    /\ mstart = [p \in Procs |-> EmptyMap]
    /\ alone = [p \in Procs |-> TRUE]
    /\ handed = [k \in DocKeys |-> {}]
    /\ everIds = [k \in DocKeys |-> {}]
    /\ last = NoWrite
    /\ prev = NoPrev
    /\ pure = PureIdle

SpecRun == RunInit /\ [][RunNext /\ UNCHANGED pure]_vars

\* the steps of the request's coroutine once it was received: the event loop
\* resumes it whenever its await completes, and every await completes (each
\* request has a total timeout, each sleep is finite, the driver gives up on a
\* server that does not answer)
RunProgress ==
    \/ \E has_is_integer \in BOOLEAN : HMongoCheck(has_is_integer)
    \/ \E op \in FetchOps, d \in {0, 1} : \E out \in AttemptOutcomes(op) : FetchTry(op, out, d)
    \/ FetchSleep
    \/ AfterToken
    \/ AfterOffers
    \/ LoopHead
    \/ AfterRedirect
    \/ AfterPage
    \/ AfterReviews
    \/ AfterHtml
    \/ MongoCheck
    \/ SaveFind
    \/ SaveUpdate

\* fairness is on the coroutine's own steps, each of which moves its position;
\* the server's stopping is the only other step of a run in progress, and it
\* changes mongoUp alone
position == run.pc
SpecRunFair ==
    /\ RunInit
    /\ [][RunNext /\ UNCHANGED pure]_vars
    /\ WF_position(UNCHANGED <<mongoUp, pure>> /\ RunProgress)

Init ==
    /\ MergeInit
    /\ mongoUp = TRUE
    /\ now = 0
    /\ run = RunIdle
    /\ hist = HistIdle
    /\ pure = PureIdle

SpecMerge == Init /\ [][MergeNext /\ UNCHANGED <<runVars, pure>>]_vars
InitSerial ==
    /\ SerialInit
    /\ mongoUp = TRUE
    /\ now = 0
    /\ run = RunIdle
    /\ hist = HistIdle
    /\ pure = PureIdle

SpecSerial == InitSerial /\ [][SerialNext /\ UNCHANGED <<runVars, pure>>]_vars

----------------------------------------------------------------------------
(* Pure functions applied to drawn inputs *)

MaxParsed == 3
SortPrices == {10, 20, 30}

\* collected offers: ids unique (the position), any prices
ParsedInputs ==
    UNION {{[i \in 1..n |-> [id |-> i, price |-> f[i], original_url |-> NoneStr]] :
                f \in [1..n -> SortPrices]} : n \in 0..MaxParsed}

\* price_sort and count_limit as validate_query_params hands them to get_offers
PostInputs ==
    {[fn |-> "post", in |-> [parsed |-> ps, price_sort |-> so, count_limit |-> cl],
      out |-> <<>>, done |-> FALSE] :
        ps \in ParsedInputs, so \in {NoneStr, "asc", "desc"}, cl \in {1, 2, 3, 10}}

\* the tail of get_offers applied to one collected mapping
ApplyPostProcess ==
    /\ pure.fn = "post" /\ ~pure.done
    /\ pure' = [pure EXCEPT !.done = TRUE,
                   !.out = PostProcess(pure.in.parsed, pure.in.price_sort, pure.in.count_limit)]

MaxTimeoutIn == 62
\* what FastAPI hands over for `int | None` / `str | None` query parameters
TimeoutDomain == {NoneInt} \cup (-1..MaxTimeoutIn)
CountDomain == {NoneInt} \cup (-1..11) \cup {999, 1000, 1001}
SortDomain == {NoneStr, "", "asc", "desc", "price", "DESC"}
ParamInputs ==
    {[fn |-> "params", in |-> [timeout_limit |-> tl, price_sort |-> so, count_limit |-> cl],
      out |-> <<>>, done |-> FALSE] :
        tl \in TimeoutDomain, so \in SortDomain, cl \in CountDomain}

\* validate_query_params on one triple, under an interpreter whose int has
\* is_integer or one whose int has not
ApplyValidateQueryParams(has_is_integer) ==
    /\ pure.fn = "params" /\ ~pure.done
    /\ LET i == pure.in
       IN pure' = [pure EXCEPT !.done = TRUE,
                      !.out = validate_query_params(i.timeout_limit, i.price_sort,
                                                    i.count_limit, has_is_integer)]

MaxSegs == 3
Domains == {"hotline.ua", "comfy.ua", "brain.com.ua"}
\* hosts: the domain itself, a subdomain of it, a longer name that ends in
\* it, another site, another supported site, none (no scheme in the URL)
NetlocInputs == {<<"hotline.ua">>, <<"www.", "hotline.ua">>, <<"not", "hotline.ua">>,
                 <<"example.com">>, <<"comfy.ua">>, <<>>}
SegInputs == {"ua", "RU", "en", "item", "item.html"}
UrlInputs ==
    {UrlEmpty} \cup
    {[empty |-> FALSE, netloc |-> h, segs |-> sg] :
        h \in NetlocInputs, sg \in UNION {[1..n -> SegInputs] : n \in 0..MaxSegs}}
UrlCallInputs ==
    {[fn |-> "url", in |-> [url |-> u, domain |-> d], out |-> <<>>, done |-> FALSE] :
        u \in UrlInputs, d \in Domains}

\* utils.validate_url on one URL and domain
ApplyValidateUrl ==
    /\ pure.fn = "url" /\ ~pure.done
    /\ pure' = [pure EXCEPT !.done = TRUE, !.out = validate_url(pure.in.url, pure.in.domain)]

MaxTs == 2
\* one raw review and the cutoff parse_date_to_ts produced (NoneInt: no date_to)
KeepInputs ==
    {[fn |-> "keep",
      in |-> [adapter |-> a, review |-> [id |-> i, created |-> c], date_to_ts |-> dt],
      out |-> <<>>, done |-> FALSE] :
        a \in {"comfy", "brain"}, i \in {"a", "none"}, c \in -2..MaxTs,
        dt \in {NoneInt} \cup (0..MaxTs)}

\* parse_review / parse_comment and the `if id and item` test on one record
ApplyKeep ==
    /\ pure.fn = "keep" /\ ~pure.done
    /\ LET i == pure.in
       IN pure' = [pure EXCEPT !.done = TRUE,
                      !.out = IF i.adapter = "comfy"
                              THEN [raises |-> FALSE,
                                    kept |-> ComfyKeeps(i.review, i.date_to_ts)]
                              ELSE [raises |-> BrainRaises(i.review),
                                    kept |-> ~BrainRaises(i.review)
                                             /\ BrainKeeps(i.review, i.date_to_ts)]]

PureNext ==
    \/ ApplyPostProcess
    \/ ApplyKeep
    \/ ApplyValidateUrl
    \/ \E has_is_integer \in BOOLEAN : ApplyValidateQueryParams(has_is_integer)

PureInit ==
    /\ MergeInit
    /\ mongoUp = TRUE
    /\ now = 0
    /\ run = RunIdle
    /\ hist = HistIdle
    /\ \/ pure \in PostInputs
       \/ pure \in ParamInputs
       \/ pure \in KeepInputs
       \/ pure \in UrlCallInputs

SpecPure == PureInit /\ [][PureNext /\ UNCHANGED <<mergeVars, runVars>>]_vars

----------------------------------------------------------------------------
(* Merge Store properties *)

\* R is M overlaid by N: N's entries, M's other entries, nothing else
IsOverlay(M, N, R) ==
    /\ DOMAIN R = (DOMAIN M) \cup (DOMAIN N)
    /\ \A i \in DOMAIN N : R[i] = N[i]
    /\ \A i \in (DOMAIN M) \ (DOMAIN N) : R[i] = M[i]

Stored(k) == CurrentOf(db[k])
MapA1 == [i \in {"a"} |-> 1]
MapA2 == [i \in {"a"} |-> 2]
MapB2 == [i \in {"b"} |-> 2]
MapA1B2 == [i \in {"a", "b"} |-> IF i = "a" THEN 1 ELSE 2]

\* C1: a merge executed on its own leaves the document equal to the mapping
\* stored when it was called overlaid by the new record set, and touches no
\* other document; {a:1} then {b:2} gives {a:1,b:2}, {a:1} then {a:2} gives {a:2}.
MergeOverlay ==
    last.done =>
        /\ IsOverlay(last.start, last.new, last.result)
        /\ Stored(last.key) = last.result
        /\ (last.start = MapA1 /\ last.new = MapB2) => last.result = MapA1B2
        /\ (last.start = MapA1 /\ last.new = MapA2) => last.result = MapA2

\* a merge onto {a:1} has just completed with {b:2}: one entry kept, one added
MergeOverlayWitness ==
    /\ last.done
    /\ last.start = MapA1
    /\ last.new = MapB2
    /\ Stored(last.key) = MapA1B2

MapA2B1 == [i \in {"a", "b"} |-> IF i = "a" THEN 2 ELSE 1]
MapA1B1 == [i \in {"a", "b"} |-> 1]

\* C2: whatever mapping the document held before (none, empty or any mapping
\* earlier merges left), merging the same record set into it twice in a row
\* leaves the mapping the first merge left, which is that prior mapping
\* overlaid by the record set.
MergeIdempotent ==
    (last.done /\ prev.done /\ last.key = prev.key /\ last.new = prev.new) =>
        /\ last.start = prev.result
        /\ last.result = prev.result
        /\ Stored(last.key) = prev.result
        /\ IsOverlay(prev.start, prev.new, last.result)

\* the document held {a:2, b:1} from an earlier merge; {a:1} has just been
\* merged into it a second time in a row, and it holds {a:1, b:1} as after
\* the first
MergeIdempotentWitness ==
    /\ last.done /\ prev.done
    /\ last.key = prev.key
    /\ last.new = prev.new
    /\ prev.start = MapA2B1
    /\ last.new = MapA1
    /\ prev.result = MapA1B1
    /\ Stored(last.key) = MapA1B1

\* C3: with merges run one after another no stored id is ever removed, and
\* between merges each document's id set is the union of the id sets handed
\* to the store for it.
NeverPruned ==
    \A k \in DocKeys :
        /\ everIds[k] \subseteq DOMAIN Stored(k)
        /\ (\A p \in Procs : ~InFlight(p)) => DOMAIN Stored(k) = handed[k]

\* two runs handed disjoint non-empty id sets for one document; both are stored
NeverPrunedWitness ==
    /\ last.done /\ prev.done
    /\ last.key = prev.key
    /\ DOMAIN prev.new = {"a"}
    /\ DOMAIN last.new = {"b"}
    /\ DOMAIN Stored(last.key) = {"a", "b"}

\* C4: a merge that no call for the same URL overlapped leaves its document
\* as if it had run alone, whatever calls for other URLs interleave with it,
\* and no merge changes another document.
DistinctUrlsSafe ==
    last.done =>
        /\ last.others
        /\ last.alone => IsOverlay(last.start, last.new, last.result)

\* a write completed while a call for another URL was between its steps
DistinctUrlsSafeWitness ==
    /\ last.done
    /\ last.alone
    /\ last.overlap
    /\ last.new = MapA1B2
    /\ \E p \in Procs : mpc[p] = "update_one" /\ margs[p].url # last.key[2]

\* C5: whatever the interleaving, the document after a write is the writer's
\* record set overlaid on the mapping that writer read: it holds all of the
\* writer's records and no id that was never handed to the store for it.
LastWriteWins ==
    /\ last.done =>
        /\ IsOverlay(last.read, last.new, last.result)
        /\ \A i \in DOMAIN last.new : Stored(last.key)[i] = last.new[i]
    /\ \A k \in DocKeys : DOMAIN Stored(k) \subseteq handed[k]

\* two overlapping calls for one URL have both written; the earlier writer's
\* record is gone
LastWriteWinsWitness ==
    /\ last.done /\ prev.done
    /\ ~last.alone
    /\ last.key = prev.key
    /\ prev.new = MapA1
    /\ last.new = MapB2
    /\ Stored(last.key) = MapB2

----------------------------------------------------------------------------
(* Pipeline run properties *)

Done == run.pc = "done"
Returned == IF run.adapter = "hotline" THEN run.outcome.offers ELSE run.outcome.comments
AfterPcs == {"after_token", "after_offers", "after_redirect", "after_page",
             "after_reviews", "after_html"}

\* C6: a run that reaches its save step while the store is unavailable skips
\* persistence (no read, no write), returns the records it computed and does
\* not fail.
StoreFailureNonFatal ==
    (Done /\ hist.atSave /\ hist.saveDown) =>
        /\ run.outcome.status = "ok"
        /\ hist.storeReads = 0
        /\ hist.storeWrites = 0
        /\ Returned = hist.computed

\* C7: a fetch operation makes at most default_retries attempts, returns on
\* its first success, and returns its empty value without raising once
\* default_retries attempts have failed.
BoundedRetry ==
    /\ hist.tries <= default_retries
    /\ hist.succ <= 1
    /\ run.pc = "fetch_try" => (hist.succ = 0 /\ hist.tries < default_retries)
    /\ run.pc \in AfterPcs =>
        /\ run.outcome.status = "running"
        /\ run.fres.ok => (hist.succ = 1 /\ hist.tries = run.attempt)
        /\ ~run.fres.ok => (hist.succ = 0 /\ hist.tries = default_retries
                              /\ run.fres = NoPayload /\ run.fop \in hist.exhausted)

\* the second candidate's redirect lookup has just given up after three failed
\* attempts, the first candidate's lookup having succeeded
BoundedRetryWitness ==
    /\ run.pc = "after_redirect"
    /\ ~run.fres.ok
    /\ hist.tries = default_retries
    /\ run.idx = 2
    /\ run.parsed_offers[1].original_url = "shop"

\* C8: a run in which a fetch operation exhausted its retries, the store
\* answering throughout, does not raise to the inbound boundary.
GracefulDegradation ==
    (Done /\ hist.exhausted # {} /\ mongoUp) => run.outcome.status = "ok"

\* C9: the candidate query and the redirect lookups are issued only after the
\* one get_product_token call returned a token; a run that obtained no token
\* issues neither and returns an empty offer set.
TokenPrecondition ==
    /\ hist.opCalls["token"] <= 1
    /\ (hist.opCalls["offers"] > 0 \/ hist.opCalls["redirect"] > 0) =>
            (hist.opCalls["token"] = 1 /\ hist.tokenResult = "token")
    /\ (Done /\ hist.tokenResult = "none") =>
        /\ hist.opCalls["offers"] = 0
        /\ hist.opCalls["redirect"] = 0
        /\ run.outcome.status = "ok"
        /\ run.outcome.offers = <<>>

\* C10 as stated: a candidate is started at its timeout check iff the elapsed
\* time has not exceeded timeout_limit, and a collector that timed out returns
\* every record enriched before the stop.
TimeoutReturnsAllEnriched ==
    /\ hist.check.done =>
         (hist.check.started <=> 3 * hist.check.elapsed <= 10 * run.timeout_limit)
    /\ (hist.timedOut /\ hist.atSave) => Len(hist.computed) = hist.started

\* C10: a candidate is started at its timeout check iff the elapsed time is
\* below timeout_limit; after a stop no further candidate is started, every
\* started candidate is complete, and the run returns the enriched records cut
\* to count_limit: min(enriched, count_limit) of them, each an enriched record.
TimeoutPartialSuccess ==
    /\ hist.check.done =>
         (hist.check.started <=> 3 * hist.check.elapsed < 10 * run.timeout_limit)
    /\ hist.timedOut =>
         /\ hist.started < Len(run.offers_data)
         /\ hist.opCalls["redirect"] = hist.started
         /\ Len(run.parsed_offers) = hist.started
         /\ ~hist.check.started
    /\ (hist.timedOut /\ hist.atSave) =>
         /\ Len(hist.computed) = Min(hist.started, run.count_limit)
         /\ \A i \in 1..Len(hist.computed) :
                \E j \in 1..Len(run.parsed_offers) : hist.computed[i] = run.parsed_offers[j]
    /\ (Done /\ hist.timedOut /\ run.outcome.status = "ok") =>
         run.outcome.offers = hist.computed

\* a run stopped at the check where the elapsed time equals the limit, after
\* enriching two of three candidates, and returned those two
TimeoutPartialSuccessWitness ==
    /\ Done
    /\ run.outcome.status = "ok"
    /\ hist.timedOut
    /\ 3 * hist.check.elapsed = 10 * run.timeout_limit
    /\ Len(run.offers_data) = 3
    /\ hist.started = 2
    /\ Len(run.outcome.offers) = 2

\* C11: when get_offers returns with no sort requested, no timeout stop and
\* at least count_limit candidates in the list, it returns exactly count_limit
\* records: the first count_limit candidates, in candidate order.
CountCapNoSort ==
    (hist.atSave /\ hist.tokenResult = "token" /\ ~TruthyStr(run.price_sort)
        /\ ~hist.timedOut /\ Len(run.offers_data) >= run.count_limit) =>
        /\ Len(hist.computed) = run.count_limit
        /\ \A i \in 1..Len(hist.computed) :
              /\ hist.computed[i].id = NodeOf(run.offers_data, i).id
              /\ hist.computed[i].price = NodeOf(run.offers_data, i).price

\* three candidates, count_limit 2, no sort: the first two came back in order
CountCapNoSortWitness ==
    /\ hist.atSave
    /\ ~TruthyStr(run.price_sort)
    /\ ~hist.timedOut
    /\ run.count_limit = 2
    /\ Len(run.offers_data) = 3
    /\ Len(hist.computed) = 2
    /\ hist.computed[1].id = 1
    /\ hist.computed[2].id = 2

----------------------------------------------------------------------------
(* Pure function properties *)

\* a comes before b in the order asked for: by price in the direction asked,
\* equal prices by encounter order
Position(parsed, x) == CHOOSE i \in 1..Len(parsed) : parsed[i] = x
ComesBefore(parsed, dir, a, b) ==
    \/ (dir = "asc" /\ a.price < b.price)
    \/ (dir = "desc" /\ a.price > b.price)
    \/ (a.price = b.price /\ Position(parsed, a) < Position(parsed, b))
SeqRange(q) == {q[i] : i \in 1..Len(q)}

\* C12: with a sort requested the result is the first count_limit records of
\* the collected records ordered by price in that direction, equal prices in
\* encounter order; a result never has more than count_limit records; asc with
\* count_limit 2 over prices [30,10,20] gives [10,20].
SortThenTruncate ==
    (pure.fn = "post" /\ pure.done) =>
        LET parsed == pure.in.parsed
            dir == pure.in.price_sort
            out == pure.out
        IN /\ Len(out) <= pure.in.count_limit
           /\ dir \in {"asc", "desc"} =>
                /\ Len(out) = Min(pure.in.count_limit, Len(parsed))
                /\ SeqRange(out) \subseteq SeqRange(parsed)
                /\ \A i, j \in 1..Len(out) :
                        i < j => ComesBefore(parsed, dir, out[i], out[j])
                /\ \A x \in SeqRange(parsed) \ SeqRange(out) :
                        \A i \in 1..Len(out) : ComesBefore(parsed, dir, out[i], x)
           /\ (dir = "asc" /\ pure.in.count_limit = 2 /\ Len(parsed) = 3
                 /\ parsed[1].price = 30 /\ parsed[2].price = 10 /\ parsed[3].price = 20)
                => (Len(out) = 2 /\ out[1].price = 10 /\ out[2].price = 20)

\* a descending sort cut to 2 has kept two equally priced records in encounter
\* order and dropped the cheaper first one
SortThenTruncateWitness ==
    /\ pure.fn = "post" /\ pure.done
    /\ pure.in.price_sort = "desc"
    /\ pure.in.count_limit = 2
    /\ Len(pure.in.parsed) = 3
    /\ pure.in.parsed[1].price = 10
    /\ pure.in.parsed[2].price = 20
    /\ pure.in.parsed[3].price = 20
    /\ Len(pure.out) = 2
    /\ pure.out[1].id = 2
    /\ pure.out[2].id = 3

ParamsReturned == pure.fn = "params" /\ pure.done /\ ~pure.out.raises

\* C13: whenever validate_query_params returns, its timeout_limit is in
\* 10..60: 60 for an absent one, 60 for one above 60, 10 for one below 10, and
\* the given value for one in 10..60.
TimeoutNormalized ==
    ParamsReturned =>
        LET given == pure.in.timeout_limit
            got == pure.out.timeout_limit
        IN /\ got \in 10..60
           /\ given = NoneInt => got = 60
           /\ (given # NoneInt /\ given > 60) => got = 60
           /\ (given # NoneInt /\ given < 10) => got = 10
           /\ given \in 10..60 => got = given

\* C14: whenever validate_query_params returns, its count_limit is in
\* 10..1000: 10 for an absent one, 1000 for one above 1000, 10 for one below
\* 10, and the given value for one in 10..1000.
CountNormalized ==
    ParamsReturned =>
        LET given == pure.in.count_limit
            got == pure.out.count_limit
        IN /\ got \in 10..1000
           /\ given = NoneInt => got = 10
           /\ (given # NoneInt /\ given > 1000) => got = 1000
           /\ (given # NoneInt /\ given < 10) => got = 10
           /\ given \in 10..1000 => got = given

HostInDomain(url, domain) ==
    \/ url.netloc = <<domain>>
    \/ url.netloc = <<"www.", domain>>

\* C16: for an empty URL or a URL whose host is outside the domain,
\* validate_url returns the URL it was given with no path and no slug.
ForeignUrlsFailSoft ==
    (pure.fn = "url" /\ pure.done
        /\ (pure.in.url.empty \/ ~HostInDomain(pure.in.url, pure.in.domain))) =>
        /\ ~pure.out.ok
        /\ pure.out.url = pure.in.url

\* C17: for an accepted URL whose first path segment is a language prefix
\* (any case), the canonical path begins with "/" and holds no segment equal
\* to that prefix; no canonical path begins with a language-prefix segment.
LanguagePrefixStripped ==
    (pure.fn = "url" /\ pure.done /\ pure.out.ok) =>
        LET segs == pure.in.url.segs
            cpath == pure.out.normalized_path
        IN /\ cpath[1] = "/"
           /\ (Len(cpath) >= 2) => Lower(cpath[2]) \notin LANG_PREFIXES
           /\ (segs # <<>> /\ Lower(segs[1]) \in LANG_PREFIXES) =>
                \A i \in 1..Len(cpath) : cpath[i] # segs[1]

\* C18: a request whose URL is empty or belongs to no supported domain ends,
\* on either endpoint, with a success response carrying no items.
UnsupportedUrlSucceedsEmpty ==
    (Done /\ (run.req_url.empty \/ \A d \in Domains : ~HostInDomain(run.req_url, d))) =>
        /\ run.outcome.status = "ok"
        /\ run.outcome.offers = <<>>
        /\ run.outcome.comments = EmptyMap

\* a raw record with an id, a parseable date and a date within the cutoff
GoodRecord(r, date_to_ts) ==
    /\ r.id # "none"
    /\ r.created >= 0
    /\ date_to_ts # NoneInt => r.created <= date_to_ts
LastBatch == IF run.adapter = "brain" THEN run.fres.body.items ELSE run.fres.body

\* C19: a review run whose last batch was fetched, the store answering, does
\* not raise, and every record of that batch that has its id and a parseable
\* date within the cutoff is among the returned comments, whatever the other
\* records of the batch lack.
BadRecordDropsAlone ==
    (Done /\ run.fop \in {"reviews", "html"} /\ run.fres.ok /\ mongoUp
        /\ (run.adapter = "brain" => ~run.fres.body.blank)) =>
        /\ run.outcome.status = "ok"
        /\ \A i \in 1..Len(LastBatch) :
              GoodRecord(LastBatch[i], run.date_to_ts)
                  => LastBatch[i].id \in DOMAIN run.outcome.comments

\* C20: with a cutoff C given, a record that has an id and a parsed date is
\* kept iff its created_at is at most C.
InclusiveCutoff ==
    (pure.fn = "keep" /\ pure.done /\ ~pure.out.raises
        /\ pure.in.date_to_ts # NoneInt
        /\ pure.in.review.id # "none" /\ pure.in.review.created >= 0) =>
        (pure.out.kept <=> pure.in.review.created <= pure.in.date_to_ts)

\* the canonical URL of a BrainParser run holds no -p<digits>.html
BrainIdMissing ==
    /\ run.adapter = "brain"
    /\ ~ValidationFailed(validate_url(run.req_url, "brain.com.ua"))
    /\ \A i \in 1..Len(run.url.segs) : run.url.segs[i] # "item-p1.html"
\* the product page of a ComfyParser run gave no product id
ComfyIdMissing ==
    /\ run.adapter = "comfy"
    /\ run.fop = "page"
    /\ (~run.fres.ok \/ ~run.fres.body.product_id)

\* C21: a review run for which no product id can be extracted returns an
\* empty record set, does not raise, and requests no reviews page and no
\* reviews HTML.
MissingIdShortCircuits ==
    (Done /\ (BrainIdMissing \/ ComfyIdMissing)) =>
        /\ run.outcome.status = "ok"
        /\ run.outcome.comments = EmptyMap
        /\ hist.opCalls["reviews"] = 0
        /\ hist.opCalls["html"] = 0

\* a ComfyParser run ended after a product page that held a store id and a
\* review total but no product id
MissingIdShortCircuitsWitness ==
    /\ Done
    /\ run.adapter = "comfy"
    /\ run.fop = "page"
    /\ run.fres.ok
    /\ ~run.fres.body.product_id
    /\ run.fres.body.storeId
    /\ run.outcome.status = "ok"

\* validate_url, called with the adapter's domain, returned no path or no slug
UrlRejected ==
    /\ run.adapter \in {"hotline", "comfy", "brain"}
    /\ LET v == validate_url(run.req_url, DomainOf(run.adapter))
       IN v.url.empty \/ ~v.ok \/ v.slug = ""

\* C22: a run whose URL fails validate_url makes no network request, does not
\* touch the store and returns an empty record set.
NoFetchAfterValidationFailure ==
    (Done /\ UrlRejected) =>
        /\ run.outcome.status = "ok"
        /\ run.outcome.offers = <<>>
        /\ run.outcome.comments = EmptyMap
        /\ \A op \in FetchOps : hist.opCalls[op] = 0
        /\ hist.tries = 0
        /\ hist.storeReads = 0
        /\ hist.storeWrites = 0
        /\ db = PriorStore

\* the offer adapter was handed a URL of another host that names hotline.ua
\* in its path, and returned at once
NoFetchAfterValidationFailureWitness ==
    /\ Done
    /\ run.req_url = UrlMixed
    /\ run.adapter = "hotline"
    /\ run.outcome.status = "ok"
    /\ hist.opCalls["token"] = 0

\* the timeout check of LoopHead has just been made
JustChecked ==
    /\ hist.check.done
    /\ \/ hist.timedOut
       \/ run.pc = "fetch_try" /\ run.fop = "redirect" /\ hist.tries = 0
FirstCheck ==
    /\ JustChecked
    /\ hist.started = (IF hist.check.started THEN 1 ELSE 0)

\* C23 as stated: the elapsed time of the check counts from the start of the
\* enumeration, so at the first candidate's check, made as the enumeration
\* starts, nothing has elapsed, whatever the token and the candidate list took.
BudgetStartsAtEnumeration ==
    FirstCheck => hist.check.elapsed = 0

\* C23: start_time is the clock at which get_offers was entered, before the
\* token request, and nothing takes it again when the enumeration begins; the
\* elapsed time of every check, the first included, is the whole time since
\* get_offers was entered, token and candidate-list fetches with their retries
\* and backoff included, and the candidate is started iff that time is below
\* timeout_limit.  The clock reads 0 when the request is received and the
\* steps before the token request take no time, so get_offers is entered at 0
\* (first conjunct) and `now` is the time since then.
BudgetStartsAtGetOffers ==
    /\ (run.pc = "fetch_try" /\ run.fop = "token" /\ run.attempt = 1 /\ hist.tries = 0)
          => now = 0
    /\ (run.adapter = "hotline" /\ run.pc \notin {"idle", "h_mongo_check"})
          => run.start_time = 0
    /\ JustChecked =>
        /\ hist.check.elapsed = now
        /\ hist.check.started <=> 3 * now < 10 * run.timeout_limit

\* a run that received its candidates timed out at the first check: its whole
\* budget went into the token and candidate-list requests
BudgetStartsAtGetOffersWitness ==
    /\ hist.timedOut
    /\ hist.started = 0
    /\ Len(run.offers_data) >= 1
    /\ hist.opCalls["redirect"] = 0
    /\ hist.check.elapsed = now
    /\ 3 * hist.check.elapsed >= 10 * run.timeout_limit

\* the candidates of the list whose record is not in the result
LeftOut(result, edges) ==
    {i \in 1..Len(edges) : \A k \in 1..Len(result) : result[k].id # NodeOf(edges, i).id}

\* C24: with no sort requested the enumeration stops as soon as count_limit
\* records are collected: the loop head is never reached with count_limit
\* records, never more than count_limit candidates are started, and a run
\* without a timeout stop over at least count_limit candidates left by the
\* count exit after exactly count_limit of them.  The count stops enumeration
\* only when no sort was requested; when get_offers returns with a sort
\* requested and no timeout stop, every candidate of the list was enriched,
\* and the result is min(count_limit, candidates) records none of which is
\* dearer (asc) or cheaper (desc) than a candidate left out.
CountExitOnlyWithoutSort ==
    /\ ~TruthyStr(run.price_sort) =>
         /\ hist.started <= run.count_limit
         /\ hist.opCalls["redirect"] <= run.count_limit
         /\ run.pc = "h_loop" => Len(run.parsed_offers) < run.count_limit
    /\ (hist.atSave /\ hist.tokenResult = "token" /\ ~TruthyStr(run.price_sort)
          /\ ~hist.timedOut /\ Len(run.offers_data) >= run.count_limit) =>
         /\ hist.countExit
         /\ hist.started = run.count_limit
         /\ Len(run.parsed_offers) = run.count_limit
    /\ hist.countExit =>
         /\ ~TruthyStr(run.price_sort)
         /\ hist.started = run.count_limit
         /\ hist.opCalls["redirect"] = run.count_limit
         /\ run.pc \in {"save_find", "save_update", "done"}
    /\ (hist.atSave /\ hist.tokenResult = "token" /\ TruthyStr(run.price_sort)
          /\ ~hist.timedOut) =>
         /\ ~hist.countExit
         /\ hist.started = Len(run.offers_data)
         /\ hist.opCalls["redirect"] = Len(run.offers_data)
         /\ Len(hist.computed) = Min(run.count_limit, Len(run.offers_data))
         /\ \A k \in 1..Len(hist.computed) :
              /\ \E i \in 1..Len(run.offers_data) :
                    /\ hist.computed[k].id = NodeOf(run.offers_data, i).id
                    /\ hist.computed[k].price = NodeOf(run.offers_data, i).price
              /\ \A i \in LeftOut(hist.computed, run.offers_data) :
                    IF run.price_sort = "desc"
                    THEN hist.computed[k].price >= NodeOf(run.offers_data, i).price
                    ELSE hist.computed[k].price <= NodeOf(run.offers_data, i).price

\* no sort, count_limit 1, three candidates: the run left by the count exit
\* after the first candidate; the other two were never started
CountExitOnlyWithoutSortWitness ==
    /\ Done
    /\ hist.countExit
    /\ ~TruthyStr(run.price_sort)
    /\ run.count_limit = 1
    /\ Len(run.offers_data) = 3
    /\ hist.started = 1
    /\ hist.opCalls["redirect"] = 1
    /\ Len(hist.computed) = 1
    /\ hist.computed[1].id = 1

\* an ascending sort with count_limit 1 over candidates priced 20, 10, 20
\* enriched all three and returned the second one
CountNeverStopsSortedRun ==
    /\ hist.atSave
    /\ run.price_sort = "asc"
    /\ run.count_limit = 1
    /\ ~hist.timedOut
    /\ Len(run.offers_data) = 3
    /\ hist.started = 3
    /\ Len(hist.computed) = 1
    /\ hist.computed[1].id = 2
    /\ hist.computed[1].price = 10

\* C25: whenever a fetcher waits, it has just failed attempt n, it waits
\* n * default_delay, and attempt n + 1 follows the wait.
WaitsOnlyBetweenAttempts ==
    [][(run.pc = "fetch_sleep" /\ now' > now) =>
          /\ now' = Min(now + run.attempt * default_delay, MaxClock)
          /\ run'.pc = "fetch_try"
          /\ run'.fop = run.fop
          /\ run'.attempt = run.attempt + 1]_vars

\* pages 1..n in increasing order
FirstPages(n) == [i \in 1..n |-> i]

\* C26: a ReviewListingA run that found total_reviews requests
\* max(1, floor(total_reviews / 10)) pages: the pages it has requested are
\* always 1, 2, ... up to the current one, each once, and all of 1..page_size
\* by the time its loop ends; after any page, empty or not, the next page is
\* requested if one is left, no record accumulated so far is lost, and every
\* record of the page that has its id and a parseable date within the cutoff
\* is accumulated.
PaginationVisitsEveryPage ==
    /\ [](hist.opCalls["reviews"] > 0 =>
            /\ run.page_size = (IF run.reviews_total < 10 THEN 1
                                ELSE run.reviews_total \div 10)
            /\ run.page \in 1..run.page_size
            /\ hist.pages = FirstPages(run.page)
            /\ hist.opCalls["reviews"] = run.page
            /\ hist.emptyAt \subseteq 1..run.page
            /\ (hist.atSave => run.page = run.page_size))
    /\ [][run.pc = "after_reviews" =>
            /\ IF run.page < run.page_size
               THEN run'.pc = "fetch_try" /\ run'.fop = "reviews"
                        /\ run'.page = run.page + 1
               ELSE run'.pc = "mongo_check"
            /\ \A k \in DOMAIN run.comments : k \in DOMAIN run'.comments
            /\ run.fres.ok =>
                  \A i \in 1..Len(run.fres.body) :
                      GoodRecord(run.fres.body[i], run.date_to_ts)
                          => run.fres.body[i].id \in DOMAIN run'.comments]_vars

\* 25 reviews found: two pages were requested, the first returned no records,
\* and the record of the second was accumulated
PaginationVisitsEveryPageWitness ==
    /\ run.adapter = "comfy"
    /\ hist.atSave
    /\ run.reviews_total = 25
    /\ hist.pages = <<1, 2>>
    /\ hist.emptyAt = {1}
    /\ DOMAIN hist.computed = {"a"}

\* C27: a request whose URL has its host in one of the supported domains is
\* dispatched to the adapter of that domain, whatever its path holds.
DispatchByHost ==
    \A d \in Domains :
        (run.pc # "idle" /\ ~run.req_url.empty /\ HostInDomain(run.req_url, d)) =>
            DomainOf(run.adapter) = d /\ run.adapter \in {"hotline", "comfy", "brain"}

\* C28: a run that was received reaches its final state, where it has returned
\* (status ok) or raised to the endpoint (status error); on the way a fetch
\* makes at most default_retries attempts, no more candidates are started and
\* no more redirect resolutions begun than the list has candidates, the index
\* never passes the end of the list by more than one, and no more pages are
\* requested than page_size.
RunTerminates ==
    /\ [](/\ hist.tries <= default_retries
          /\ run.attempt <= default_retries
          /\ hist.started <= Len(run.offers_data)
          /\ hist.opCalls["redirect"] <= Len(run.offers_data)
          /\ run.idx <= Len(run.offers_data) + 1
          /\ hist.opCalls["reviews"] <= run.page_size
          /\ \A op \in {"token", "offers", "page", "html"} : hist.opCalls[op] <= 1
          /\ (Done => run.outcome.status \in {"ok", "error"})
          /\ (~Done => run.outcome.status = "running"))
    /\ (run.pc # "idle") ~> Done

\* a long run has finished: it started three candidates, one redirect
\* resolution used up its attempts, the clock passed 9 units of waiting, and
\* the result was written to the store
RunTerminatesWitness ==
    /\ Done
    /\ run.outcome.status = "ok"
    /\ hist.started = 3
    /\ "redirect" \in hist.exhausted
    /\ hist.storeWrites = 1
    /\ now >= 9

\* a candidate was started and its record is not collected yet
CandidateInProgress ==
    /\ run.fop = "redirect"
    /\ run.pc \in {"fetch_try", "fetch_sleep", "after_redirect"}

\* C29: every candidate whose processing started and finished has one record
\* in the collected mapping, under its own id and in candidate order; the
\* step that ends a candidate adds its record, with original_url absent when
\* the resolution gave no target, and goes on to the next candidate unless the
\* count stops an unsorted enumeration.
UnresolvedCandidateKept ==
    /\ [](hist.opCalls["redirect"] > 0 =>
            /\ Len(run.parsed_offers)
                  = hist.started - (IF CandidateInProgress THEN 1 ELSE 0)
            /\ \A i \in 1..Len(run.parsed_offers) :
                  run.parsed_offers[i].id = NodeOf(run.offers_data, i).id)
    /\ [][(run.pc = "after_redirect" /\ run' # run) =>
            /\ Len(run'.parsed_offers) = Len(run.parsed_offers) + 1
            /\ run'.parsed_offers[run.idx].id = NodeOf(run.offers_data, run.idx).id
            /\ SubSeq(run'.parsed_offers, 1, Len(run.parsed_offers)) = run.parsed_offers
            /\ ~run.fres.ok => run'.parsed_offers[run.idx].original_url = NoneStr
            /\ \/ run'.pc = "h_loop" /\ run'.idx = run.idx + 1
               \/ /\ run.price_sort = NoneStr
                  /\ Len(run'.parsed_offers) >= run.count_limit
                  /\ run'.pc \in {"save_find", "done"}]_vars

\* the first candidate's resolution used up its attempts, its record was
\* collected with no original_url, and the second candidate was resolved
UnresolvedCandidateKeptWitness ==
    /\ hist.atSave
    /\ "redirect" \in hist.exhausted
    /\ Len(run.parsed_offers) >= 2
    /\ run.parsed_offers[1].original_url = NoneStr
    /\ run.parsed_offers[2].original_url = "shop"

\* the document of the run: its canonical URL in the collection of its adapter
OwnKey == <<IF run.adapter = "hotline" THEN "products" ELSE "reviews", run.url>>
\* BrainParser got no reviews HTML
BrainPayloadEmpty ==
    /\ run.adapter = "brain"
    /\ run.fop = "html"
    /\ (~run.fres.ok \/ run.fres.body.blank)

\* C30: a run reads the store at most once and writes it at most once, the
\* write only after the read; once it has read, it is past all its fetching
\* (it is at the write or finished); every document other than the one keyed
\* by its canonical URL in its adapter's collection is as the run found it,
\* and that one differs only after the write; a finished run that
\* short-circuited (URL rejected, no product id, no reviews HTML) has not read
\* or written and left every document as it was.
StoreTouchedOnce ==
    /\ hist.storeReads <= 1
    /\ hist.storeWrites <= hist.storeReads
    /\ hist.storeReads = 1 =>
          /\ hist.atSave
          /\ run.pc \in {"save_update", "done"}
    /\ \A k \in DOMAIN db :
          db[k] # PriorStore[k] => (k = OwnKey /\ hist.storeWrites = 1)
    /\ (Done /\ (UrlRejected \/ BrainIdMissing \/ ComfyIdMissing \/ BrainPayloadEmpty)) =>
          /\ hist.storeReads = 0
          /\ db = PriorStore

\* a ComfyParser run has read and written once and created the review
\* document of its canonical URL, the only one that changed
StoreTouchedOnceWitness ==
    /\ Done
    /\ run.adapter = "comfy"
    /\ hist.storeReads = 1
    /\ hist.storeWrites = 1
    /\ db[OwnKey].found
    /\ "a" \in DOMAIN db[OwnKey].field
    /\ \A k \in DOMAIN db : k # OwnKey => db[k] = PriorStore[k]

====
